---- MODULE Spec2Model ----
(***************************************************************************)
(* A model of the image façade of src/main.py: the two FastAPI handlers    *)
(* generate_image (POST /images/generate) and generate_image_stream        *)
(* (POST /images/generate/stream), the helper _download_image_as_fileobj,  *)
(* and their environment (the web the reference images are fetched from    *)
(* and the upstream provider).                                             *)
(*                                                                         *)
(* One behaviour of the model is one HTTP request: Init draws the request  *)
(* (endpoint and JSON body) and the answers the web will give; the actions *)
(* are the steps of the handler between two interactions with the          *)
(* environment.  The provider's answers are drawn when the call is made.   *)
(*                                                                         *)
(* Not modelled: bodies that are not JSON objects (request.json() or       *)
(* body.get raise and the framework answers 500), _inline_image_from_url   *)
(* (no handler calls it), and the `input<ext>` fallback of the file name   *)
(* (the URLs drawn all have a last path segment).                          *)
(***************************************************************************)
EXTENDS Integers, Sequences, FiniteSets

(***************************************************************************)
(* Bounds of the model.                                                    *)
(***************************************************************************)
\* longest list of reference URLs in a request
MaxUrls == 2
\* most items in an upstream images response
MaxItems == 2
\* most events an upstream stream delivers
MaxEvents == 3

SeqsUpTo(S, k) == UNION {[1..m -> S] : m \in 0..k}

(***************************************************************************)
(* JSON values of a request body, as Python sees them.  Every value has    *)
(* the same four fields so that values of different kinds can be compared. *)
(*   t = "absent"  the key is not in the body                              *)
(*   t = "null"    JSON null, Python None                                  *)
(*   t = "str"     a string, in s                                          *)
(*   t = "int"     an integer, in n                                        *)
(*   t = "list"    a list, its entries in l                                *)
(***************************************************************************)
Absent == [t |-> "absent", s |-> "", n |-> 0, l |-> <<>>]
None == [t |-> "null", s |-> "", n |-> 0, l |-> <<>>]
Str(s) == [t |-> "str", s |-> s, n |-> 0, l |-> <<>>]
Num(n) == [t |-> "int", s |-> "", n |-> n, l |-> <<>>]
List(l) == [t |-> "list", s |-> "", n |-> 0, l |-> l]

\* isinstance(v, str), isinstance(v, list)
IsStr(v) == v.t = "str"
IsList(v) == v.t = "list"

\* Python's truth value of v: None, "", 0 and [] are false.
Truthy(v) ==
    CASE v.t = "absent" -> FALSE
      [] v.t = "null" -> FALSE
      [] v.t = "str" -> v.s # ""
      [] v.t = "int" -> v.n # 0
      [] v.t = "list" -> v.l # <<>>

\* body.get(k): None when the key is absent
Get(b, k) == IF b[k] = Absent THEN None ELSE b[k]
\* body.get(k, d): d only when the key is absent (an explicit null stays None)
GetDefault(b, k, d) == IF b[k] = Absent THEN d ELSE b[k]

(***************************************************************************)
(* The requests drawn.                                                     *)
(***************************************************************************)
UrlA == "https://img.example/a.png"
UrlB == "https://img.example/b.jpg?v=2"
Urls == {UrlA, UrlB}

Prompts == {Absent, Str(""), Str("a red fox")}
Counts == {Absent, Num(1), Num(2)}
Sizes == {Absent, Str("512x512")}
Qualities == {Absent, Str("high")}
Backgrounds == {Absent, Str("opaque")}
\* entries of a sampleImageUrl list: URL strings and one non-string
SampleEntries == {Str(u) : u \in Urls} \cup {Num(7)}
Samples ==
    {Absent, None, Str(""), Str(UrlA), Num(0), Num(7)}
        \cup {List(l) : l \in SeqsUpTo(SampleEntries, MaxUrls)}
PartialCounts == {Absent, Num(2)}

GenerateBodies ==
    [prompt : Prompts, n : Counts, size : Sizes, quality : Qualities,
     background : Backgrounds, sampleImageUrl : Samples,
     partial_images : {Absent}]
StreamBodies ==
    [prompt : Prompts, n : {Absent}, size : {Absent}, quality : {Absent},
     background : {Absent}, sampleImageUrl : {Absent},
     partial_images : PartialCounts]

(***************************************************************************)
(* The web: what requests.get answers for the fetch at each position of    *)
(* the URL list.  "ok" is a 200 response, "404" a response with another    *)
(* status, "exc" an exception raised by requests.get (timeout, DNS, ...).  *)
(***************************************************************************)
FetchOutcomes == {"ok", "404", "exc"}

\* resp.content of a successful GET of url
ContentOf(url) == <<"bytes of", url>>

\* url.split("/")[-1].split("?")[0], for the URLs of the model
FileNameOf(url) ==
    CASE url = UrlA -> "a.png"
      [] url = UrlB -> "b.jpg"

(***************************************************************************)
(* The provider: items of an images response, and its answers.             *)
(***************************************************************************)
\* an item: has_b64 = FALSE is an item whose b64_json is None or missing
Items ==
    {[has_b64 |-> FALSE, b64_json |-> ""], [has_b64 |-> TRUE, b64_json |-> ""],
     [has_b64 |-> TRUE, b64_json |-> "AAA"], [has_b64 |-> TRUE, b64_json |-> "BBB"]}

\* raised: the call raised, with message; has_data: the response has a data attribute
ImagesAnswers ==
    {[raised |-> TRUE, message |-> "provider error", has_data |-> FALSE, data |-> <<>>],
     [raised |-> FALSE, message |-> "", has_data |-> FALSE, data |-> <<>>]}
        \cup {[raised |-> FALSE, message |-> "", has_data |-> TRUE, data |-> d] :
                d \in SeqsUpTo(Items, MaxItems)}
NoAnswer == [raised |-> FALSE, message |-> "", has_data |-> FALSE, data |-> <<>>]

PartialType == "response.image_generation_call.partial_image"
FinalType == "response.image_generation_call"
OtherType == "response.in_progress"
\* upstream stream events; an attribute an event does not carry is ""
Events ==
    {[type |-> PartialType, partial_image_b64 |-> p, result |-> ""] : p \in {"AAA", "BBB"}}
        \cup {[type |-> FinalType, partial_image_b64 |-> "", result |-> p] : p \in {"AAA", "CCC"}}
        \cup {[type |-> OtherType, partial_image_b64 |-> "", result |-> ""]}

(***************************************************************************)
(* State.                                                                  *)
(***************************************************************************)
VARIABLES
    endpoint,   \* "generate" or "stream": the route of the request
    body,       \* the JSON body of the request
    web,        \* web[i]: the outcome of the GET of the i-th reference URL
    pc,         \* where the handler is
    status,     \* the HTTP status of the response, 0 while there is none
    detail,     \* the HTTPException's detail, NoDetail when none was raised
    file_objs,  \* generate_image's file_objs
    fetchLog,   \* the URLs requests.get was called with, in call order
    calls,      \* the upstream operations invoked, in call order
    answer,     \* what the images operation answered
    images,     \* the "images" of a JSON response
    delivered,  \* the events the upstream stream has yielded
    lines,      \* the NDJSON lines sent to the client
    aborted     \* the upstream stream raised while being iterated

vars ==
    <<endpoint, body, web, pc, status, detail, file_objs, fetchLog, calls,
      answer, images, delivered, lines, aborted>>

NoDetail == [msg |-> "", url |-> "", info |-> ""]

\* urls = [sample] if isinstance(sample, str) else sample
NormalizeUrls(sample) == IF IsStr(sample) THEN List(<<sample>>) ELSE sample

\* isinstance(urls, list) and all(isinstance(u, str) for u in urls)
ValidUrls(urls) == IsList(urls) /\ \A i \in 1..Len(urls.l) : IsStr(urls.l[i])

\* the list the download loop runs over, for the request's body
UrlList(b) == NormalizeUrls(Get(b, "sampleImageUrl")).l

\* the reference branch is taken and reaches the download loop
Downloads(b) ==
    /\ Truthy(Get(b, "prompt"))
    /\ Truthy(Get(b, "sampleImageUrl"))
    /\ ValidUrls(NormalizeUrls(Get(b, "sampleImageUrl")))

Init ==
    /\ endpoint \in {"generate", "stream"}
    /\ body \in (IF endpoint = "generate" THEN GenerateBodies ELSE StreamBodies)
    /\ web \in (IF endpoint = "generate" /\ Downloads(body)
                    THEN [1..Len(UrlList(body)) -> FetchOutcomes]
                    ELSE {<<>>})
    /\ pc = "start"
    /\ status = 0
    /\ detail = NoDetail
    /\ file_objs = <<>>
    /\ fetchLog = <<>>
    /\ calls = <<>>
    /\ answer = NoAnswer
    /\ images = <<>>
    /\ delivered = <<>>
    /\ lines = <<>>
    /\ aborted = FALSE

\* raise HTTPException(code, d): the request ends with that status and detail
Raise(code, d) ==
    /\ pc' = "done"
    /\ status' = code
    /\ detail' = d

\* the prompt check written as `if prompt is None`
PromptMissingOnlyNone(b) == Get(b, "prompt") = None

\* `if not prompt` of both handlers
PromptMissing(b) == ~Truthy(Get(b, "prompt"))

\* `if sample` of generate_image: the reference branch is taken
SampleGiven(b) == Truthy(Get(b, "sampleImageUrl"))

(***************************************************************************)
(* generate_image, lines 82-94: the prompt check, the choice of the branch *)
(* and the check of the URL list.                                          *)
(***************************************************************************)
GenerateImageBegin ==
    /\ endpoint = "generate"
    /\ pc = "start"
    /\ IF PromptMissing(body)
         THEN Raise(400, [msg |-> "Missing prompt", url |-> "", info |-> ""])
         ELSE IF SampleGiven(body)
           THEN IF ValidUrls(NormalizeUrls(Get(body, "sampleImageUrl")))
                  THEN pc' = "download" /\ UNCHANGED <<status, detail>>
                  ELSE Raise(400, [msg |-> "sampleImageUrl must be a string or list of strings",
                                   url |-> "", info |-> ""])
           ELSE pc' = "generate" /\ UNCHANGED <<status, detail>>
    /\ UNCHANGED <<endpoint, body, web, file_objs, fetchLog, calls, answer,
                   images, delivered, lines, aborted>>

(***************************************************************************)
(* _download_image_as_fileobj and the download loop of generate_image.     *)
(***************************************************************************)
\* the HTTPException _download_image_as_fileobj raises for a failed GET
DownloadError(url, outcome) ==
    IF outcome = "exc"
      THEN [msg |-> "Failed to download image from", url |-> url, info |-> "exception"]
      ELSE [msg |-> "GET returned status", url |-> url, info |-> outcome]

\* the BytesIO _download_image_as_fileobj returns for a successful GET
FileObj(url) == [name |-> FileNameOf(url), content |-> ContentOf(url)]

\* One iteration of `for url in urls`, a failed GET skipped instead of raised.
DownloadImageSkipsFailure ==
    /\ pc = "download"
    /\ LET i == Len(fetchLog) + 1
           url == UrlList(body)[i].s
       IN /\ fetchLog' = Append(fetchLog, url)
          /\ file_objs' = IF web[i] = "ok" THEN Append(file_objs, FileObj(url)) ELSE file_objs
          /\ pc' = IF i = Len(UrlList(body)) THEN "edit" ELSE "download"
          /\ UNCHANGED <<status, detail>>
    /\ UNCHANGED <<endpoint, body, web, calls, answer, images, delivered, lines, aborted>>

\* One iteration of `for url in urls`: the GET of the next URL, whose failure
\* ends the request with 502, and the append to file_objs.
DownloadImage ==
    /\ pc = "download"
    /\ LET i == Len(fetchLog) + 1
           url == UrlList(body)[i].s
       IN /\ fetchLog' = Append(fetchLog, url)
          /\ IF web[i] = "ok"
               THEN /\ file_objs' = Append(file_objs, FileObj(url))
                    /\ pc' = IF i = Len(UrlList(body)) THEN "edit" ELSE "download"
                    /\ UNCHANGED <<status, detail>>
               ELSE /\ Raise(502, DownloadError(url, web[i]))
                    /\ UNCHANGED file_objs
    /\ UNCHANGED <<endpoint, body, web, calls, answer, images, delivered, lines, aborted>>

(***************************************************************************)
(* The upstream images call and the reshaping of its response.             *)
(***************************************************************************)
\* the arguments of openai.images.edit
EditArgs(b, files) ==
    [op |-> "images.edit", model |-> "gpt-image-1", image |-> files,
     prompt |-> Get(b, "prompt")]

\* the arguments of openai.images.generate, n and size not defaulted
GenerateArgsNoDefaults(b) ==
    [op |-> "images.generate", model |-> "gpt-image-1", prompt |-> Get(b, "prompt"),
     n |-> Get(b, "n"), size |-> Get(b, "size"),
     quality |-> Get(b, "quality"), background |-> Get(b, "background"),
     moderation |-> "low"]

\* the arguments of openai.images.generate
GenerateArgs(b) ==
    [op |-> "images.generate", model |-> "gpt-image-1", prompt |-> Get(b, "prompt"),
     n |-> GetDefault(b, "n", Num(1)), size |-> GetDefault(b, "size", Str("1024x1024")),
     quality |-> Get(b, "quality"), background |-> Get(b, "background"),
     moderation |-> "low"]

\* getattr(resp, "data", [])
DataOf(a) == IF a.has_data THEN a.data ELSE <<>>

\* getattr(item, "b64_json", None)
B64Of(item) == IF item.has_b64 THEN Str(item.b64_json) ELSE None

RECURSIVE ExtractImagesReversed(_)
\* the extraction loop, each payload put in front of the list
ExtractImagesReversed(data) ==
    IF data = <<>>
      THEN <<>>
      ELSE LET b64 == B64Of(Head(data))
           IN ExtractImagesReversed(Tail(data)) \o (IF Truthy(b64) THEN <<b64.s>> ELSE <<>>)

RECURSIVE ExtractImagesTwice(_)
\* the extraction loop, each payload appended twice
ExtractImagesTwice(data) ==
    IF data = <<>>
      THEN <<>>
      ELSE LET b64 == B64Of(Head(data))
           IN (IF Truthy(b64) THEN <<b64.s, b64.s>> ELSE <<>>) \o ExtractImagesTwice(Tail(data))

RECURSIVE ExtractImages(_)
\* images = []; for item in data: b64 = ...; if b64: images.append(b64)
ExtractImages(data) ==
    IF data = <<>>
      THEN <<>>
      ELSE LET b64 == B64Of(Head(data))
           IN (IF Truthy(b64) THEN <<b64.s>> ELSE <<>>) \o ExtractImages(Tail(data))

\* What follows an images call that answered a: 502 when it raised, 500 when
\* no image was extracted, else the JSON response.
Respond(a, apiError, emptyError) ==
    /\ answer' = a
    /\ IF a.raised
         THEN /\ Raise(502, [msg |-> apiError, url |-> "", info |-> a.message])
              /\ UNCHANGED images
         ELSE IF ExtractImages(DataOf(a)) = <<>>
           THEN /\ Raise(500, [msg |-> emptyError, url |-> "", info |-> ""])
                /\ UNCHANGED images
           ELSE /\ pc' = "done"
                /\ status' = 200
                /\ images' = ExtractImages(DataOf(a))
                /\ UNCHANGED detail

\* Branch A of generate_image from the call of openai.images.edit on.
CallEdit ==
    /\ pc = "edit"
    /\ calls' = Append(calls, EditArgs(body, file_objs))
    /\ \E a \in ImagesAnswers :
          Respond(a, "OpenAI Images Edit API error", "OpenAI Images Edit API returned no images")
    /\ UNCHANGED <<endpoint, body, web, file_objs, fetchLog, delivered, lines, aborted>>

\* Branch B of generate_image.
CallGenerate ==
    /\ pc = "generate"
    /\ calls' = Append(calls, GenerateArgs(body))
    /\ \E a \in ImagesAnswers :
          Respond(a, "OpenAI Images API error", "OpenAI Images API returned no data")
    /\ UNCHANGED <<endpoint, body, web, file_objs, fetchLog, delivered, lines, aborted>>

(***************************************************************************)
(* generate_image_stream.                                                  *)
(***************************************************************************)
\* the arguments of openai.responses.create
StreamArgs(b) ==
    [op |-> "responses.create", model |-> "gpt-4.1", input |-> Get(b, "prompt"),
     tools |-> <<[type |-> "image_generation",
                  partial_images |-> GetDefault(b, "partial_images", Num(0))]>>,
     stream |-> TRUE]

\* The prompt check and the opening of the upstream stream.  The call is in
\* no try block: when it raises, the exception leaves the handler and the
\* framework answers 500.  When it returns, the StreamingResponse is returned.
StreamBegin ==
    /\ endpoint = "stream"
    /\ pc = "start"
    /\ IF PromptMissing(body)
         THEN /\ Raise(400, [msg |-> "Missing prompt", url |-> "", info |-> ""])
              /\ UNCHANGED <<calls, answer>>
         ELSE /\ calls' = Append(calls, StreamArgs(body))
              /\ \E raised \in BOOLEAN :
                    IF raised
                      THEN /\ answer' = [raised |-> TRUE, message |-> "provider error",
                                         has_data |-> FALSE, data |-> <<>>]
                           /\ Raise(500, [msg |-> "Internal Server Error", url |-> "", info |-> ""])
                      ELSE /\ pc' = "streaming"
                           /\ status' = 200
                           /\ UNCHANGED <<detail, answer>>
    /\ UNCHANGED <<endpoint, body, web, file_objs, fetchLog, images, delivered, lines, aborted>>

\* the body of generate()'s loop, the final image event ignored
ChunkDropsFinal(event) ==
    IF event.type = PartialType
      THEN <<[type |-> "partial", b64 |-> event.partial_image_b64]>>
      ELSE <<>>

\* the body of generate()'s loop: the lines yielded for one event
Chunk(event) ==
    IF event.type = PartialType
      THEN <<[type |-> "partial", b64 |-> event.partial_image_b64]>>
      ELSE IF event.type = FinalType
        THEN <<[type |-> "final", b64 |-> event.result]>>
        ELSE <<>>

\* The upstream stream yields one event and generate() handles it.
StreamEvent ==
    /\ pc = "streaming"
    /\ Len(delivered) < MaxEvents
    /\ \E event \in Events :
          /\ delivered' = Append(delivered, event)
          /\ lines' = lines \o Chunk(event)
    /\ UNCHANGED <<endpoint, body, web, pc, status, detail, file_objs, fetchLog,
                   calls, answer, images, aborted>>

\* The upstream stream is exhausted: generate() returns.
StreamEnd ==
    /\ pc = "streaming"
    /\ pc' = "done"
    /\ UNCHANGED <<endpoint, body, web, status, detail, file_objs, fetchLog,
                   calls, answer, images, delivered, lines, aborted>>

\* The upstream stream raises, and generate() reports it in a last line.
StreamFailSendsErrorLine ==
    /\ pc = "streaming"
    /\ pc' = "done"
    /\ aborted' = TRUE
    /\ lines' = Append(lines, [type |-> "error", b64 |-> ""])
    /\ UNCHANGED <<endpoint, body, web, status, detail, file_objs, fetchLog,
                   calls, answer, images, delivered>>

\* The upstream stream raises while generate() iterates it: the exception
\* leaves generate(), which has no handler, and the body ends there.
StreamFail ==
    /\ pc = "streaming"
    /\ pc' = "done"
    /\ aborted' = TRUE
    /\ UNCHANGED <<endpoint, body, web, status, detail, file_objs, fetchLog,
                   calls, answer, images, delivered, lines>>

Next ==
    \/ GenerateImageBegin
    \/ DownloadImage
    \/ CallEdit
    \/ CallGenerate
    \/ StreamBegin
    \/ StreamEvent
    \/ StreamEnd
    \/ StreamFail

Spec == Init /\ [][Next]_vars

(***************************************************************************)
(* What the claims speak of, stated on the request and on the logs, apart  *)
(* from the definitions of the handlers above.                             *)
(***************************************************************************)
\* the request carries a non-empty prompt
HasPrompt == body.prompt.t = "str" /\ body.prompt.s # ""

\* the request carries no reference image source
NoSample == body.sampleImageUrl \in {Absent, None}

\* the reference image source is a string or a list of strings only
WellFormedSample ==
    \/ body.sampleImageUrl.t = "str"
    \/ /\ body.sampleImageUrl.t = "list"
       /\ \A i \in 1..Len(body.sampleImageUrl.l) : body.sampleImageUrl.l[i].t = "str"

\* the URLs of a well-formed reference image source, in the request's order
SampleUrls ==
    IF body.sampleImageUrl.t = "str"
      THEN <<body.sampleImageUrl.s>>
      ELSE [i \in 1..Len(body.sampleImageUrl.l) |-> body.sampleImageUrl.l[i].s]

\* the count the request asks for
RequestedCount == IF body.n = Absent THEN 1 ELSE body.n.n

\* the value of key k the request asks to forward, with default d when omitted
Forwarded(k, d) == IF body[k] = Absent THEN d ELSE body[k]

RECURSIVE ImageLines(_)
\* the lines a sequence of upstream events is to produce
ImageLines(evs) ==
    IF evs = <<>>
      THEN <<>>
      ELSE LET e == Head(evs)
               line == CASE e.type = PartialType ->
                              <<[type |-> "partial", b64 |-> e.partial_image_b64]>>
                         [] e.type = FinalType ->
                              <<[type |-> "final", b64 |-> e.result]>>
                         [] OTHER -> <<>>
           IN line \o ImageLines(Tail(evs))

\* N partial events followed by one final event
PartialsThenFinal(evs) ==
    /\ Len(evs) >= 1
    /\ evs[Len(evs)].type = FinalType
    /\ \A i \in 1..(Len(evs) - 1) : evs[i].type = PartialType

\* the payloads of the items that carry a b64_json, empty or not
PayloadsPresent(data) ==
    LET kept == SelectSeq(data, LAMBDA item : item.has_b64)
    IN [i \in 1..Len(kept) |-> kept[i].b64_json]

\* the payloads of the items that carry a non-empty b64_json
PayloadsNonEmpty(data) ==
    LET kept == SelectSeq(data, LAMBDA item : item.has_b64 /\ item.b64_json # "")
    IN [i \in 1..Len(kept) |-> kept[i].b64_json]

\* the upstream operations invoked so far
Ops == {calls[i].op : i \in 1..Len(calls)}

(***************************************************************************)
(* C1.  A request to either endpoint whose prompt is missing or the empty  *)
(* string ends with HTTP 400, and at no point of it has an upstream        *)
(* operation been invoked or a reference image been fetched.               *)
(***************************************************************************)
C1_MissingPromptRejected ==
    (body.prompt = Absent \/ body.prompt = Str("")) =>
        /\ calls = <<>>
        /\ fetchLog = <<>>
        /\ pc \in {"start", "done"}
        /\ pc = "done" => status = 400 /\ detail.msg = "Missing prompt"

C1_Witness ==
    /\ endpoint = "stream"
    /\ body.prompt = Str("")
    /\ pc = "done"
    /\ status = 400

(***************************************************************************)
(* C2.  When the upstream stream completes without failure, the lines sent *)
(* are exactly the lines of its partial-image and final-image events, in   *)
(* arrival order, one per event, none for other events; N partial events   *)
(* followed by one final event give N+1 lines, the last tagged "final".    *)
(***************************************************************************)
C2_StreamRelaysImageEvents ==
    (endpoint = "stream" /\ pc = "done" /\ status = 200 /\ ~aborted) =>
        /\ lines = ImageLines(delivered)
        /\ PartialsThenFinal(delivered) =>
              /\ Len(lines) = Len(delivered)
              /\ lines[Len(lines)].type = "final"

C2_Witness ==
    /\ endpoint = "stream"
    /\ pc = "done"
    /\ ~aborted
    /\ Len(delivered) = 3
    /\ delivered[1].type = PartialType
    /\ delivered[2].type = OtherType
    /\ delivered[3].type = FinalType
    /\ Len(lines) = 2

(***************************************************************************)
(* C3.  A /images/generate request with a non-empty prompt and no          *)
(* reference image source invokes the upstream generate operation exactly  *)
(* once, with the request's prompt, count, size, quality and background    *)
(* (an omitted count forwarded as 1, an omitted size as "1024x1024"), and  *)
(* never invokes the edit operation or the image fetcher.                  *)
(***************************************************************************)
C3_GenerateForwardsParameters ==
    (endpoint = "generate" /\ HasPrompt /\ NoSample) =>
        /\ fetchLog = <<>>
        /\ "images.edit" \notin Ops
        /\ Len(calls) <= 1
        /\ pc = "done" =>
              /\ Len(calls) = 1
              /\ calls[1].op = "images.generate"
              /\ calls[1].prompt = body.prompt
              /\ calls[1].n = Forwarded("n", Num(1))
              /\ calls[1].size = Forwarded("size", Str("1024x1024"))
              /\ calls[1].quality = Forwarded("quality", None)
              /\ calls[1].background = Forwarded("background", None)

C3_Witness ==
    /\ endpoint = "generate"
    /\ HasPrompt
    /\ body.sampleImageUrl = Absent
    /\ body.n = Absent
    /\ body.size = Absent
    /\ body.quality = Str("high")
    /\ pc = "done"
    /\ status = 200
    /\ calls[1].n = Num(1)

(***************************************************************************)
(* C4, as stated.  A 200 response to a /images/generate request without a  *)
(* reference image source carries at most as many images as the request    *)
(* asked for (1 when the count is omitted), each the payload of an item of *)
(* the upstream response.                                                  *)
(***************************************************************************)
C4_AtMostRequestedCount ==
    (endpoint = "generate" /\ NoSample /\ status = 200) =>
        /\ Len(images) <= RequestedCount
        /\ \A i \in 1..Len(images) :
              \E j \in 1..Len(answer.data) :
                  answer.data[j].has_b64 /\ images[i] = answer.data[j].b64_json

(***************************************************************************)
(* C4, amended.  Such a response carries at most as many images as the     *)
(* upstream response has items, each the payload of one of these items;    *)
(* the handler does not compare the number with the requested count.       *)
(***************************************************************************)
C4_AtMostUpstreamItems ==
    (endpoint = "generate" /\ NoSample /\ status = 200) =>
        /\ Len(images) <= Len(answer.data)
        /\ \A i \in 1..Len(images) :
              \E j \in 1..Len(answer.data) :
                  answer.data[j].has_b64 /\ images[i] = answer.data[j].b64_json

C4_Witness ==
    /\ endpoint = "generate"
    /\ body.sampleImageUrl = Absent
    /\ body.n = Num(1)
    /\ status = 200
    /\ Len(answer.data) = 2
    /\ Len(images) = 2

(***************************************************************************)
(* C5.  A /images/generate request with a non-empty prompt and a reference *)
(* image source (a URL string, taken as the one-element list, or a list of *)
(* URL strings) fetches the URLs in list order and, every fetch            *)
(* succeeding, invokes the edit operation once with the prompt and the     *)
(* downloaded images in the order of the list, and never generate.         *)
(***************************************************************************)
C5_EditReceivesImagesInOrder ==
    (/\ endpoint = "generate"
     /\ HasPrompt
     /\ body.sampleImageUrl.t = "list" \/ Truthy(body.sampleImageUrl)
     /\ WellFormedSample
     /\ \A i \in DOMAIN web : web[i] = "ok") =>
        /\ "images.generate" \notin Ops
        /\ \E k \in 0..Len(SampleUrls) : fetchLog = SubSeq(SampleUrls, 1, k)
        /\ pc = "done" =>
              /\ fetchLog = SampleUrls
              /\ Len(calls) = 1
              /\ calls[1].op = "images.edit"
              /\ calls[1].prompt = body.prompt
              /\ calls[1].image = [i \in 1..Len(SampleUrls) |->
                                      [name |-> FileNameOf(SampleUrls[i]),
                                       content |-> ContentOf(SampleUrls[i])]]

(***************************************************************************)
(* C6.  When the fetch of a URL of the reference list fails, the edit      *)
(* operation is never invoked, the request ends with HTTP 502, and the     *)
(* error names the first URL, in list order, whose fetch fails; also when  *)
(* every fetch would fail, the first URL of the list being then named.     *)
(***************************************************************************)
C6_FirstFailedFetchReported ==
    (/\ endpoint = "generate"
     /\ HasPrompt
     /\ Truthy(body.sampleImageUrl)
     /\ WellFormedSample
     /\ \E i \in DOMAIN web : web[i] # "ok") =>
        LET first == CHOOSE i \in DOMAIN web :
                        web[i] # "ok" /\ \A j \in 1..(i - 1) : web[j] = "ok"
        IN /\ calls = <<>>
           /\ pc \in {"start", "download", "done"}
           /\ Len(fetchLog) <= first
           /\ pc = "done" =>
                 /\ status = 502
                 /\ detail.url = SampleUrls[first]
                 /\ fetchLog = SubSeq(SampleUrls, 1, first)

C6_Witness ==
    /\ endpoint = "generate"
    /\ body.sampleImageUrl = List(<<Str(UrlB), Str(UrlA)>>)
    /\ web = <<"404", "exc">>
    /\ pc = "done"
    /\ status = 502
    /\ detail.url = UrlB
    /\ calls = <<>>

(***************************************************************************)
(* C7.  A /images/generate request with a non-empty prompt whose reference *)
(* image source is present and is neither a string nor a list of strings   *)
(* only ends with HTTP 400, no URL fetched and no upstream operation       *)
(* invoked.                                                                *)
(***************************************************************************)
C7_MalformedSampleRejected ==
    (/\ endpoint = "generate"
     /\ HasPrompt
     /\ body.sampleImageUrl \notin {Absent, None}
     /\ ~WellFormedSample) =>
        /\ fetchLog = <<>>
        /\ calls = <<>>
        /\ pc \in {"start", "done"}
        /\ pc = "done" => status = 400

(***************************************************************************)
(* C8.  When the call to the provider fails (generate, edit, or the call   *)
(* that opens the stream) the request ends with HTTP 502 carrying the      *)
(* provider's message, and every request invokes at most one upstream      *)
(* operation, at most once.                                                *)
(***************************************************************************)
C8_ProviderFailureIs502 ==
    /\ Len(calls) <= 1
    /\ answer.raised =>
          /\ pc = "done"
          /\ status = 502
          /\ detail.info = answer.message

(***************************************************************************)
(* C9, as stated.  After the upstream call succeeds, in either branch,     *)
(* `images` is the list of the payloads of the items that carry a base64   *)
(* field, in upstream order; when that list is empty the request ends with *)
(* HTTP 500, so that a 200 response never carries an empty list.           *)
(***************************************************************************)
C9_ImagesAreItemsWithB64Field ==
    (endpoint = "generate" /\ pc = "done" /\ Len(calls) = 1 /\ ~answer.raised) =>
        IF PayloadsPresent(answer.data) = <<>>
          THEN status = 500 /\ images = <<>>
          ELSE status = 200 /\ images = PayloadsPresent(answer.data)

(***************************************************************************)
(* C9, amended.  The same with the items that carry a non-empty base64     *)
(* payload: an item whose payload is the empty string is skipped like an   *)
(* item that has none.                                                     *)
(***************************************************************************)
C9_ImagesAreItemsWithNonEmptyB64 ==
    /\ status = 200 /\ endpoint = "generate" => images # <<>>
    /\ (endpoint = "generate" /\ pc = "done" /\ Len(calls) = 1 /\ ~answer.raised) =>
          IF PayloadsNonEmpty(answer.data) = <<>>
            THEN status = 500 /\ images = <<>>
            ELSE status = 200 /\ images = PayloadsNonEmpty(answer.data)

C9_Witness ==
    /\ endpoint = "generate"
    /\ pc = "done"
    /\ Len(calls) = 1
    /\ calls[1].op = "images.edit"
    /\ answer.data = <<[has_b64 |-> FALSE, b64_json |-> ""],
                       [has_b64 |-> TRUE, b64_json |-> "BBB"]>>
    /\ status = 200
    /\ images = <<"BBB">>

(***************************************************************************)
(* C10.  When the upstream stream fails after k events, the lines sent are *)
(* the lines of the image events among these k events; no error line and   *)
(* no further line is sent, none is sent again, and the upstream stream is *)
(* not opened again.                                                       *)
(***************************************************************************)
C10_FailedStreamEndsEarly ==
    /\ [](aborted =>
            /\ pc = "done"
            /\ lines = ImageLines(delivered)
            /\ \A i \in 1..Len(lines) : lines[i].type \in {"partial", "final"}
            /\ Len(calls) = 1)
    /\ [][aborted => lines' = lines /\ calls' = calls /\ delivered' = delivered]_vars

C10_Witness ==
    /\ aborted
    /\ status = 200
    /\ Len(delivered) = 2
    /\ delivered[1].type = PartialType
    /\ delivered[2].type = OtherType
    /\ Len(lines) = 1

====
